---- MODULE Spec2Model ----
(***************************************************************************)
(* aind-ng-mesh: the local precomputed writer (write_to_local,             *)
(* write_precomputed, edit_info, save_mesh, write_segment_properties), the *)
(* uploader (to_s3) and their composition write_to_s3, as a state machine  *)
(* over a local filesystem, an object-store bucket and the call in flight. *)
(*                                                                         *)
(* A path is a sequence of name components; os.path.join on paths is \o.   *)
(* A file content is a record [fmt, pairs]: a JSON object is its key/value *)
(* pairs in file order (fmt "dump" is json.dump's own layout, "other" any  *)
(* other layout of the same text), binary data has fmt "bytes".            *)
(* A JSON value is a sequence of strings led by a type tag: <<"s", x>> a   *)
(* string, <<"n", x>> a number, <<"l", x1, ..>> a list of strings.         *)
(* An S3 key or prefix is text: a sequence of names and "/" separators.    *)
(*                                                                         *)
(* Specifications: Spec (a caller using every function), SpecUpload        *)
(* (write_to_s3 and to_s3), SpecMesh (save_mesh alone), SpecS3 (to_s3 on   *)
(* any small directory tree), SpecInfo (edit_info on any small info file). *)
(***************************************************************************)
EXTENDS Integers, Sequences, FiniteSets, TLC

VARIABLES
    dirs,       \* local filesystem: the set of directories (paths)
    files,      \* local filesystem: path -> content of every file
    bucket,     \* object store: key -> body of every object put
    pending,    \* directories with a tensorstore write issued and not yet committed
    meshes,     \* the mesh mapping of the run: sequence of <<obj_id, mesh>>, dict order
    labels,     \* the label volume of the run (its shape)
    top,        \* the API function the caller is in ("none" between calls)
    arg,        \* its directory argument
    pc,         \* position inside the call
    it,         \* save_mesh: the keys its loop has still to visit
    obj_ids,    \* write_to_local: the value save_mesh returned
    s3,         \* to_s3: its arguments, its client and the state of os.walk
    log,        \* the finished calls, oldest first: [op, arg, res]
    pre         \* the files as they were when the call in flight started

vars == <<dirs, files, bucket, pending, meshes, labels, top, arg, pc, it, obj_ids, s3, log, pre>>

\* ------------------------------------------------------------------ bounds
MaxId == 2
MaxCalls == 2
MaxPairs == 2
MaxEntries == 3

ObjIds == 1..MaxId
MeshValues == {"mesh"}
LabelShapes == {"10x10x10"}
None == <<"None">>

\* ------------------------------------------------------------------ paths
Parent(p) == SubSeq(p, 1, Len(p) - 1)

IsPrefix(d, p) == Len(d) <= Len(p) /\ SubSeq(p, 1, Len(d)) = d

Under(d, p) == Len(d) < Len(p) /\ IsPrefix(d, p)

Exists(ds, fs, p) == p \in ds \/ p \in DOMAIN fs

\* ------------------------------------------------------------------ JSON
S(x) == <<"s", x>>

RECURSIVE HasKey(_, _)
HasKey(d, k) == d # <<>> /\ (Head(d)[1] = k \/ HasKey(Tail(d), k))

RECURSIVE Get(_, _)
Get(d, k) == IF d = <<>> THEN None
             ELSE IF Head(d)[1] = k THEN Head(d)[2] ELSE Get(Tail(d), k)

\* d[k] = v on a Python dict: a key already there keeps its place
DictSet(d, k, v) ==
    IF HasKey(d, k)
    THEN [i \in 1..Len(d) |-> IF d[i][1] = k THEN <<k, v>> ELSE d[i]]
    ELSE Append(d, <<k, v>>)

RECURSIVE LoadPairs(_, _)
LoadPairs(acc, ps) == IF ps = <<>> THEN acc
                      ELSE LoadPairs(DictSet(acc, Head(ps)[1], Head(ps)[2]), Tail(ps))

\* read_json: json.load of a JSON object; a repeated key keeps its last value
read_json(fs, path) == LoadPairs(<<>>, fs[path].pairs)

write_json(fs, path, data) == (path :> [fmt |-> "dump", pairs |-> data]) @@ fs

\* ------------------------------------------------------------------ io_utils.mkdir
MkdirRaises(ds, fs, p) == ~Exists(ds, fs, p) /\ Parent(p) \notin ds

mkdir(ds, fs, p) == IF Exists(ds, fs, p) THEN ds ELSE ds \cup {p}

\* ------------------------------------------------------------------ the call in flight
LocalRoot == IF top = "write_to_s3" THEN arg \o <<"upload_dir">> ELSE arg

MeshDir == IF top = "save_mesh" THEN arg ELSE LocalRoot \o <<"mesh">>

NoS3 == [dir |-> <<>>, prefix |-> <<>>, given |-> None, client |-> None, stack |-> <<>>]

Finish(res) ==
    /\ log' = Append(log, [op |-> top, arg |-> arg, res |-> res])
    /\ top' = "none"
    /\ pc' = "idle"
    /\ it' = <<>>
    /\ obj_ids' = None
    /\ s3' = [s3 EXCEPT !.stack = <<>>]

Goto(l) == pc' = l /\ UNCHANGED <<top, log>>

\* shutil.rmtree
rmtree_dirs(ds, d) == {p \in ds : ~IsPrefix(d, p)}

rmtree_files(fs, d) == [p \in {q \in DOMAIN fs : ~IsPrefix(d, q)} |-> fs[p]]

\* an exception leaving the call in flight: as try/finally cleanup would have it ...
RaiseWithCleanup(err) ==
    /\ Finish(err)
    /\ IF top = "write_to_s3"
       THEN /\ dirs' = rmtree_dirs(dirs, LocalRoot)
            /\ files' = rmtree_files(files, LocalRoot)
       ELSE UNCHANGED <<dirs, files>>

\* ... and as the code has it: no function catches anything, so the exception reaches
\* the caller and nothing on its way touches the filesystem
Raise(err) == Finish(err) /\ UNCHANGED <<dirs, files>>

Keys(m) == [i \in 1..Len(m) |-> m[i][1]]

\* ------------------------------------------------------------------ write_to_local
MkdirRoot ==
    /\ pc = "wl_mkdir_root"
    /\ IF MkdirRaises(dirs, files, LocalRoot)
       THEN Raise("FileNotFoundError")
       ELSE /\ dirs' = mkdir(dirs, files, LocalRoot)
            /\ Goto("wl_mkdir_mesh")
            /\ UNCHANGED <<files, it, obj_ids, s3>>
    /\ UNCHANGED <<bucket, pending, meshes, labels, arg, pre>>

MkdirMesh ==
    /\ pc = "wl_mkdir_mesh"
    /\ IF MkdirRaises(dirs, files, MeshDir)
       THEN Raise("FileNotFoundError")
       ELSE /\ dirs' = mkdir(dirs, files, MeshDir)
            /\ Goto("wp_open")
            /\ UNCHANGED <<files, it, obj_ids, s3>>
    /\ UNCHANGED <<bucket, pending, meshes, labels, arg, pre>>

\* ------------------------------------------------------------------ write_precomputed
ScaleKey == "1_1_1"

ChunkName == "chunk"

EmptyFile == [fmt |-> "bytes", pairs |-> <<>>]

Bytes(x) == [fmt |-> "bytes", pairs |-> << <<"data", S(x)>> >>]

\* the info file tensorstore's neuroglancer_precomputed driver creates for a uint16 volume
TsInfo(shape) ==
    << <<"@type", S("neuroglancer_multiscale_volume")>>,
       <<"data_type", S("uint16")>>,
       <<"num_channels", <<"n", "1">>>>,
       <<"scales", <<"l", shape>>>>,
       <<"type", S("image")>> >>

VolumeFiles(root) == {root \o <<"info">>, root \o <<ScaleKey, ChunkName>>}

\* ts.open(create, delete_existing).result(): what it deletes below the path is the
\* driver's choice: the volume's own files, or every file below the path.
TsOpen ==
    /\ pc = "wp_open"
    /\ \E wipe \in {VolumeFiles(LocalRoot), {p \in DOMAIN files : Under(LocalRoot, p)}} :
          files' = write_json([p \in DOMAIN files \ wipe |-> files[p]],
                              LocalRoot \o <<"info">>, TsInfo(labels))
    /\ Goto("wp_write")
    /\ UNCHANGED <<dirs, bucket, pending, meshes, labels, arg, it, obj_ids, s3, pre>>

\* write_future = dataset.write(block): the write is issued and nothing waits for it ...
TsWrite ==
    /\ pc = "wp_write"
    /\ pending' = pending \cup {LocalRoot}
    /\ Goto("edit_info")
    /\ UNCHANGED <<dirs, files, bucket, meshes, labels, arg, it, obj_ids, s3, pre>>

\* ... tensorstore commits it on its own threads, whenever they get to it
TsCommit ==
    /\ \E d \in pending :
          /\ pending' = pending \ {d}
          /\ dirs' = dirs \cup {d, d \o <<ScaleKey>>}
          /\ files' = (d \o <<ScaleKey, ChunkName>> :> Bytes(labels)) @@ files
    /\ UNCHANGED <<bucket, meshes, labels, top, arg, pc, it, obj_ids, s3, log, pre>>

\* ------------------------------------------------------------------ edit_info
EditInfoSkipType(info) ==
    DictSet(DictSet(info, "mesh", S("mesh")),
            "segment_properties", S("segment_properties"))

edit_info_patch(info) ==
    DictSet(DictSet(DictSet(info, "type", S("segmentation")),
                    "mesh", S("mesh")),
            "segment_properties", S("segment_properties"))

edit_info(fs, precomputed_dir) ==
    write_json(fs, precomputed_dir \o <<"info">>,
               edit_info_patch(read_json(fs, precomputed_dir \o <<"info">>)))

EditInfo ==
    /\ pc = "edit_info"
    /\ IF LocalRoot \o <<"info">> \in DOMAIN files
       THEN /\ files' = edit_info(files, LocalRoot)
            /\ UNCHANGED dirs
            /\ IF top = "edit_info" THEN Finish("returned")
               ELSE Goto("sm_mkdir") /\ UNCHANGED <<it, obj_ids, s3>>
       ELSE Raise("FileNotFoundError")
    /\ UNCHANGED <<bucket, pending, meshes, labels, arg, pre>>

\* ------------------------------------------------------------------ meshing.save_mesh
FragmentNameNoLod(obj_id) == ToString(obj_id) \o ":0000000000000000"

FragmentName(obj_id) == ToString(obj_id) \o ":0:0000000000000000"

ManifestName(obj_id) == ToString(obj_id) \o ":" \o ToString(0)

ManifestData(obj_id) == << <<"fragments", <<"l", FragmentName(obj_id)>>>> >>

MeshInfo == << <<"@type", S("neuroglancer_legacy_mesh")>> >>

write_mesh_info(fs, mesh_dir) == write_json(fs, mesh_dir \o <<"info">>, MeshInfo)

write_mesh_filenames(fs, mesh_dir, obj_id) ==
    write_json(fs, mesh_dir \o <<ManifestName(obj_id)>>, ManifestData(obj_id))

\* save_mesh has no return statement
save_mesh_result(m) == None

SmMkdir ==
    /\ pc = "sm_mkdir"
    /\ IF MkdirRaises(dirs, files, MeshDir)
       THEN Raise("FileNotFoundError")
       ELSE /\ dirs' = mkdir(dirs, files, MeshDir)
            /\ Goto("sm_info")
            /\ UNCHANGED <<files, it, obj_ids, s3>>
    /\ UNCHANGED <<bucket, pending, meshes, labels, arg, pre>>

SmInfo ==
    /\ pc = "sm_info"
    /\ files' = write_mesh_info(files, MeshDir)
    /\ it' = Keys(meshes)
    /\ Goto("sm_loop")
    /\ UNCHANGED <<dirs, bucket, pending, meshes, labels, arg, obj_ids, s3, pre>>

SmManifest ==
    /\ pc = "sm_loop" /\ it # <<>>
    /\ files' = write_mesh_filenames(files, MeshDir, Head(it))
    /\ Goto("sm_open")
    /\ UNCHANGED <<dirs, bucket, pending, meshes, labels, arg, it, obj_ids, s3, pre>>

\* open(os.path.join(mesh_dir, filename), "wb")
SmOpen ==
    /\ pc = "sm_open"
    /\ files' = (MeshDir \o <<FragmentName(Head(it))>> :> EmptyFile) @@ files
    /\ Goto("sm_write")
    /\ UNCHANGED <<dirs, bucket, pending, meshes, labels, arg, it, obj_ids, s3, pre>>

\* f.write(meshes[obj_id].to_precomputed()): serializing the mesh or writing the bytes
\* may raise, and then the file just opened stays empty
SmWrite ==
    /\ pc = "sm_write"
    /\ \/ /\ files' = (MeshDir \o <<FragmentName(Head(it))>> :>
                           Bytes(Get(meshes, Head(it)))) @@ files
          /\ it' = Tail(it)
          /\ Goto("sm_loop")
          /\ UNCHANGED <<dirs, obj_ids, s3>>
       \/ Raise("OSError")
    /\ UNCHANGED <<bucket, pending, meshes, labels, arg, pre>>

SmReturn ==
    /\ pc = "sm_loop" /\ it = <<>>
    /\ IF top = "save_mesh"
       THEN Finish("returned")
       ELSE /\ obj_ids' = save_mesh_result(meshes)
            /\ Goto("wsp")
            /\ UNCHANGED <<it, s3>>
    /\ UNCHANGED <<dirs, files, bucket, pending, meshes, labels, arg, pre>>

\* ------------------------------------------------------------------ write_segment_properties
StrList(ids) == [i \in 1..Len(ids) |-> ToString(ids[i])]

SegmentPropertiesInfo(seg_ids) ==
    << <<"@type", S("neuroglancer_segment_properties")>>,
       <<"inline.ids", <<"l">> \o StrList(seg_ids)>>,
       <<"inline.properties[0].id", S("label")>>,
       <<"inline.properties[0].type", S("label")>>,
       <<"inline.properties[0].values", <<"l">> \o StrList(seg_ids)>> >>

\* map(str, seg_ids) raises TypeError on a seg_ids that is not iterable
WriteSegmentProperties ==
    /\ pc = "wsp"
    /\ IF obj_ids = None
       THEN Raise("TypeError")
       ELSE /\ dirs' = mkdir(dirs, files, LocalRoot \o <<"segment_properties">>)
            /\ files' = write_json(files, LocalRoot \o <<"segment_properties", "info">>,
                                   SegmentPropertiesInfo(obj_ids))
            /\ IF top = "write_to_local"
               THEN Finish("returned")
               ELSE Goto("s3_session") /\ UNCHANGED <<it, obj_ids, s3>>
    /\ UNCHANGED <<bucket, pending, meshes, labels, arg, pre>>

\* ------------------------------------------------------------------ to_s3
Ambient == <<"ambient">>

\* boto3.Session() followed by session.client("s3"): the credentials the client signs
\* with; neither call is handed access_id or secret_access_key
boto3_session(access) == Ambient

Rel(dir, path) == SubSeq(path, Len(dir) + 1, Len(path))

\* a relative path as text: its components with "/" between them
RECURSIVE RelStr(_)
RelStr(rel) == IF Len(rel) <= 1 THEN rel ELSE <<Head(rel), "/">> \o RelStr(Tail(rel))

\* posixpath.join(a, b) on text
PosixJoin(a, b) ==
    IF b # <<>> /\ Head(b) = "/" THEN b
    ELSE IF a = <<>> \/ a[Len(a)] = "/" THEN a \o b
    ELSE a \o <<"/">> \o b

FileKeyFlat(prefix, dir, path) == PosixJoin(prefix, <<path[Len(path)]>>)

FileKey(prefix, dir, path) == PosixJoin(prefix, RelStr(Rel(dir, path)))

DirKey(prefix, dir, path) == PosixJoin(prefix, RelStr(Rel(dir, path))) \o <<"/">>

ListFiles(fs, d) == {p \in DOMAIN fs : Len(p) = Len(d) + 1 /\ IsPrefix(d, p)}

ListDirs(ds, d) == {p \in ds : Len(p) = Len(d) + 1 /\ IsPrefix(d, p)}

Perms(X) == {q \in [1..Cardinality(X) -> X] : \A i, j \in DOMAIN q : i # j => q[i] # q[j]}

\* one (root, dirs, files) triple of os.walk: the files still to upload, the
\* directories still to mark and still to walk, both in the listing's order
Frame(d, order) == [root |-> d, files |-> ListFiles(files, d), marks |-> order, desc |-> order]

\* os.walk yields nothing for a directory_path that is no directory
S3Session ==
    /\ pc = "s3_session"
    /\ \E order \in Perms(ListDirs(dirs, s3.dir)) :
          s3' = [s3 EXCEPT !.client = boto3_session(s3.given),
                           !.stack = IF s3.dir \in dirs THEN <<Frame(s3.dir, order)>> ELSE <<>>]
    /\ Goto("s3_walk")
    /\ UNCHANGED <<dirs, files, bucket, pending, meshes, labels, arg, it, obj_ids, pre>>

\* s3_client.upload_file(local_path, bucket, s3_key)
S3Upload ==
    /\ pc = "s3_walk" /\ s3.stack # <<>> /\ Head(s3.stack).files # {}
    /\ \E f \in Head(s3.stack).files :
          \/ /\ bucket' = (FileKey(s3.prefix, s3.dir, f) :> files[f]) @@ bucket
             /\ s3' = [s3 EXCEPT !.stack[1].files = @ \ {f}]
             /\ Goto("s3_walk")
             /\ UNCHANGED <<dirs, files, it, obj_ids>>
          \/ /\ Raise("S3UploadFailedError")
             /\ UNCHANGED bucket
    /\ UNCHANGED <<pending, meshes, labels, arg, pre>>

\* s3_client.put_object(Body="", Bucket=bucket, Key=s3_dir_key)
S3Marker ==
    /\ pc = "s3_walk" /\ s3.stack # <<>>
    /\ Head(s3.stack).files = {} /\ Head(s3.stack).marks # <<>>
    /\ \/ /\ bucket' = (DirKey(s3.prefix, s3.dir, Head(Head(s3.stack).marks)) :> EmptyFile)
                          @@ bucket
          /\ s3' = [s3 EXCEPT !.stack[1].marks = Tail(@)]
          /\ Goto("s3_walk")
          /\ UNCHANGED <<dirs, files, it, obj_ids>>
       \/ /\ Raise("ClientError")
          /\ UNCHANGED bucket
    /\ UNCHANGED <<pending, meshes, labels, arg, pre>>

\* os.walk, top-down: after a directory's triple, walk its subdirectories in order
S3Descend ==
    /\ pc = "s3_walk" /\ s3.stack # <<>>
    /\ Head(s3.stack).files = {} /\ Head(s3.stack).marks = <<>>
    /\ IF Head(s3.stack).desc = <<>>
       THEN s3' = [s3 EXCEPT !.stack = Tail(@)]
       ELSE \E order \in Perms(ListDirs(dirs, Head(Head(s3.stack).desc))) :
               s3' = [s3 EXCEPT !.stack = <<Frame(Head(Head(s3.stack).desc), order)>>
                                          \o [@ EXCEPT ![1].desc = Tail(@)]]
    /\ Goto("s3_walk")
    /\ UNCHANGED <<dirs, files, bucket, pending, meshes, labels, arg, it, obj_ids, pre>>

\* to_s3 returns; in write_to_s3 shutil.rmtree(upload_dir) follows
S3Return ==
    /\ pc = "s3_walk" /\ s3.stack = <<>>
    /\ Finish("returned")
    /\ IF top = "write_to_s3"
       THEN /\ dirs' = rmtree_dirs(dirs, LocalRoot)
            /\ files' = rmtree_files(files, LocalRoot)
       ELSE UNCHANGED <<dirs, files>>
    /\ UNCHANGED <<bucket, pending, meshes, labels, arg, pre>>

\* ------------------------------------------------------------------ the caller
Call(op, a, start, s3args) ==
    /\ top = "none" /\ Len(log) < MaxCalls
    /\ top' = op /\ arg' = a /\ pc' = start
    /\ s3' = s3args
    /\ pre' = files
    /\ UNCHANGED <<dirs, files, bucket, pending, meshes, labels, it, obj_ids, log>>

S3Args(d, prefix, access) == [NoS3 EXCEPT !.dir = d, !.prefix = prefix, !.given = access]

CallWriteToS3(root_dir, prefix, access) ==
    Call("write_to_s3", root_dir, "wl_mkdir_root",
         S3Args(root_dir \o <<"upload_dir">>, prefix, access))

CallWriteToLocal(root_dir) == Call("write_to_local", root_dir, "wl_mkdir_root", NoS3)

CallSaveMesh(mesh_dir) == Call("save_mesh", mesh_dir, "sm_mkdir", NoS3)

CallToS3(directory_path, prefix, access) ==
    Call("to_s3", directory_path, "s3_session", S3Args(directory_path, prefix, access))

CallEditInfo(precomputed_dir) == Call("edit_info", precomputed_dir, "edit_info", NoS3)

\* ------------------------------------------------------------------ inputs
NoFiles == [p \in {} |-> EmptyFile]

Distinct(q) == \A i, j \in DOMAIN q : i # j => q[i][1] # q[j][1]

MeshMaps == {m \in UNION {[1..n -> ObjIds \X MeshValues] : n \in 0..MaxId} : Distinct(m)}

Credentials == {None, <<"id", "key">>}

StagingA == <<"A">>

StagingB == <<"B">>

InitCall ==
    /\ bucket = NoFiles /\ pending = {}
    /\ top = "none" /\ arg = <<>> /\ pc = "idle"
    /\ it = <<>> /\ obj_ids = None /\ s3 = NoS3
    /\ log = <<>> /\ pre = NoFiles

\* ------------------------------------------------------------------ Spec: the pipeline
Init ==
    /\ dirs \in {{<<>>}, {<<>>, StagingA}}
    /\ files = NoFiles
    /\ meshes \in MeshMaps
    /\ labels \in LabelShapes
    /\ InitCall

LocalStep ==
    \/ MkdirRoot \/ MkdirMesh \/ TsOpen \/ TsWrite \/ EditInfo
    \/ SmMkdir \/ SmInfo \/ SmManifest \/ SmOpen \/ SmWrite \/ SmReturn
    \/ WriteSegmentProperties

S3Step == S3Session \/ S3Upload \/ S3Marker \/ S3Descend \/ S3Return

Next ==
    \/ CallWriteToS3(StagingA, <<"p">>, None)
    \/ \E d \in {StagingA, StagingB} : CallWriteToLocal(d)
    \/ CallSaveMesh(StagingA \o <<"mesh">>)
    \/ CallToS3(StagingA \o <<"upload_dir">>, <<"p">>, None)
    \/ LocalStep
    \/ TsCommit
    \/ S3Step

Spec == Init /\ [][Next]_vars

\* ------------------------------------------------------------------ SpecUpload
\* The caller uses write_to_s3, and to_s3 on the staging directory write_to_s3 fills.
NextUpload ==
    \/ CallWriteToS3(StagingA, <<"p">>, None)
    \/ CallToS3(StagingA \o <<"upload_dir">>, <<"p">>, None)
    \/ LocalStep
    \/ TsCommit
    \/ S3Step

SpecUpload == Init /\ [][NextUpload]_vars

\* ------------------------------------------------------------------ SpecMesh: save_mesh
\* save_mesh called on its own, on a mesh directory that is absent (with or without
\* its parent) or exists, empty or with files of an earlier run in it.
StaleFiles ==
    {NoFiles,
     (StagingA \o <<"mesh", "1:0">> :> [fmt |-> "other", pairs |-> <<>>])
        @@ (StagingA \o <<"mesh", "old">> :> Bytes("old"))}

InitMesh ==
    /\ \/ dirs \in {{<<>>}, {<<>>, StagingA}} /\ files = NoFiles
       \/ dirs = {<<>>, StagingA, StagingA \o <<"mesh">>} /\ files \in StaleFiles
    /\ meshes \in MeshMaps
    /\ labels \in LabelShapes
    /\ InitCall

NextMesh ==
    \/ CallSaveMesh(StagingA \o <<"mesh">>)
    \/ SmMkdir \/ SmInfo \/ SmManifest \/ SmOpen \/ SmWrite \/ SmReturn

SpecMesh == InitMesh /\ [][NextMesh]_vars

\* ------------------------------------------------------------------ SpecS3: the uploader
\* A caller fills a directory with files and subdirectories, then uploads it once.
TreeRoot == <<"T">>

Names == {"a", "b"}

FileData == {"x", "y"}

Prefixes == {<<>>, <<"p">>, <<"p", "/">>, <<"p", "/", "q">>}

Entries == (Cardinality(dirs) - 2) + Cardinality(DOMAIN files)

EnvCreate ==
    /\ top = "none" /\ log = <<>>
    /\ Entries < MaxEntries
    /\ \E d \in {x \in dirs : IsPrefix(TreeRoot, x)}, n \in Names :
          /\ ~Exists(dirs, files, d \o <<n>>)
          /\ \/ dirs' = dirs \cup {d \o <<n>>} /\ UNCHANGED files
             \/ \E x \in FileData :
                   files' = (d \o <<n>> :> Bytes(x)) @@ files /\ UNCHANGED dirs
    /\ UNCHANGED <<bucket, pending, meshes, labels, top, arg, pc, it, obj_ids, s3, log, pre>>

InitS3 ==
    /\ dirs = {<<>>, TreeRoot}
    /\ files = NoFiles
    /\ meshes = <<>>
    /\ labels \in LabelShapes
    /\ InitCall

NextS3 ==
    \/ EnvCreate
    \/ \E p \in Prefixes, c \in Credentials : log = <<>> /\ CallToS3(TreeRoot, p, c)
    \/ S3Step

SpecS3 == InitS3 /\ [][NextS3]_vars

\* ------------------------------------------------------------------ SpecInfo: edit_info
\* edit_info applied, once or repeatedly, to a directory whose info file is any JSON object.
InfoKeys == {"@type", "type", "mesh", "scales"}

InfoVals == {S("segmentation"), S("image"), <<"l", "a">>}

InfoObjects == UNION {[1..n -> InfoKeys \X InfoVals] : n \in 0..MaxPairs}

InitInfo ==
    /\ dirs = {<<>>, StagingA}
    /\ \/ files = NoFiles
       \/ \E o \in InfoObjects, f \in {"dump", "other"} :
             files = (StagingA \o <<"info">> :> [fmt |-> f, pairs |-> o])
    /\ meshes = <<>>
    /\ labels \in LabelShapes
    /\ InitCall

NextInfo == CallEditInfo(StagingA) \/ EditInfo

SpecInfo == InitInfo /\ [][NextInfo]_vars

\* ================================================================== the claims
LastCall == log[Len(log)]

Ended(op) == top = "none" /\ log # <<>> /\ LastCall.op = op

Returned(op) == Ended(op) /\ LastCall.res = "returned"

UploadDir == StagingA \o <<"upload_dir">>

\* ------------------------------------------------------------------ C1
NoLoss == /\ \A p \in dirs : p \in dirs'
          /\ \A p \in DOMAIN files : p \in DOMAIN files'

InputErrors == {"FileNotFoundError", "OSError"}

\* C2: a write_to_local run that meets no filesystem error (the staging directory's
\* parent exists, every mesh is serialized and written) completes, and the segment-properties info it has
\* written lists exactly the string forms of the mesh mapping's keys, in the mapping's
\* order, as inline.ids and again as the label values.
C2_SegmentIdsAreMeshKeys ==
    (Ended("write_to_local") /\ LastCall.res \notin InputErrors)
      => /\ LastCall.res = "returned"
         /\ LastCall.arg \o <<"segment_properties", "info">> \in DOMAIN files
         /\ LET info == read_json(files, LastCall.arg \o <<"segment_properties", "info">>)
                ids == <<"l">> \o [i \in 1..Len(meshes) |-> ToString(meshes[i][1])]
            IN  /\ Get(info, "inline.ids") = ids
                /\ Get(info, "inline.properties[0].values") = ids

\* ------------------------------------------------------------------ C3
MeshDirHolds(d, id) ==
    LET fragment == ToString(id) \o ":0:0000000000000000"
        manifest == ToString(id) \o ":0"
    IN  /\ d \o <<fragment>> \in DOMAIN files
        /\ d \o <<manifest>> \in DOMAIN files
        /\ files[d \o <<manifest>>] =
              [fmt |-> "dump", pairs |-> << <<"fragments", <<"l", fragment>>>> >>]

MeshDirNames(ids) ==
    {"info"} \cup {ToString(id) \o ":0:0000000000000000" : id \in ids}
             \cup {ToString(id) \o ":0" : id \in ids}

\* C3: when save_mesh(meshes, mesh_dir) has returned, mesh_dir exists and holds, for
\* every key of the mapping, the fragment '{id}:0:0000000000000000' and the manifest
\* '{id}:0' that lists that fragment and nothing else, and the info file
\* {"@type": "neuroglancer_legacy_mesh"}; every other file of mesh_dir was there
\* before the call, with the same content.
C3_MeshDirLayout ==
    Returned("save_mesh") =>
      LET d == LastCall.arg
          ids == {meshes[i][1] : i \in 1..Len(meshes)}
      IN  /\ d \in dirs
          /\ \A id \in ids : MeshDirHolds(d, id)
          /\ d \o <<"info">> \in DOMAIN files
          /\ files[d \o <<"info">>] =
                [fmt |-> "dump", pairs |-> << <<"@type", S("neuroglancer_legacy_mesh")>> >>]
          /\ \A p \in DOMAIN files :
                (Parent(p) = d /\ p[Len(p)] \notin MeshDirNames(ids))
                   => p \in DOMAIN pre /\ pre[p] = files[p]

\* save_mesh has returned for a mapping of two ids, into a directory that held a stale
\* manifest '1:0' and an unrelated file: the manifest is rewritten, the file is kept
C3_Witness ==
    /\ Returned("save_mesh") /\ Len(meshes) = 2 /\ Len(log) = 1
    /\ LastCall.arg \o <<"1:0">> \in DOMAIN pre
    /\ pre[LastCall.arg \o <<"1:0">>] # files[LastCall.arg \o <<"1:0">>]
    /\ LastCall.arg \o <<"old">> \in DOMAIN files

\* ------------------------------------------------------------------ C5
\* C5: a write_to_s3 run that meets no filesystem error and no upload failure returns
\* successfully, and root_dir, the directory the caller passed, is then deleted.
C5_RootDirDeleted ==
    (Ended("write_to_s3") /\ LastCall.res \in {"returned", "TypeError"})
      => /\ LastCall.res = "returned"
         /\ LastCall.arg \notin dirs

\* ------------------------------------------------------------------ C6
\* C6: edit_info runs on a directory only when no array write to it is pending
C6_EditInfoAfterWrite ==
    [][ (pc = "edit_info" /\ pc' # "edit_info") => LocalRoot \notin pending ]_vars

\* ------------------------------------------------------------------ C9
JsonArtifacts ==
    {<<"info">>, <<"mesh", "info">>, <<"segment_properties", "info">>}
      \cup {<<"mesh", ToString(meshes[i][1]) \o ":0">> : i \in 1..Len(meshes)}

\* C9: two write_to_local runs with the same volume and the same meshes into two
\* different staging directories leave the same JSON artifacts (volume info, mesh
\* info, one manifest per id, segment-properties info) with identical content.
C9_SameJsonArtifacts ==
    ( /\ top = "none" /\ Len(log) = 2
      /\ log[1].op = "write_to_local" /\ log[2].op = "write_to_local"
      /\ log[1].arg # log[2].arg
      /\ log[1].res \notin InputErrors /\ log[2].res \notin InputErrors )
      => \A r \in JsonArtifacts :
            /\ log[1].arg \o r \in DOMAIN files
            /\ log[2].arg \o r \in DOMAIN files
            /\ files[log[1].arg \o r] = files[log[2].arg \o r]

\* ------------------------------------------------------------------ C10
\* C10: at every point, a manifest '{id}:0' in a directory has its fragment
\* '{id}:0:0000000000000000' beside it
C10_ManifestHasFragment ==
    \A p \in DOMAIN files : \A id \in ObjIds :
       p[Len(p)] = ToString(id) \o ":0"
          => Parent(p) \o <<ToString(id) \o ":0:0000000000000000">> \in DOMAIN files

\* ------------------------------------------------------------------ C4 (SpecS3)
ClaimedKey(p, r) == p \o <<"/">> \o r

JoinedKey(p, r) == IF p = <<>> THEN r
                   ELSE IF p[Len(p)] = "/" THEN p \o r ELSE p \o <<"/">> \o r

BucketMirrors(joined) ==
    LET fs == {f \in DOMAIN files : Under(TreeRoot, f)}
        ds == {d \in dirs : Under(TreeRoot, d)}
        key(x) == IF joined THEN JoinedKey(s3.prefix, RelStr(Rel(TreeRoot, x)))
                  ELSE ClaimedKey(s3.prefix, RelStr(Rel(TreeRoot, x)))
    IN  /\ DOMAIN bucket = {key(f) : f \in fs} \cup {key(d) \o <<"/">> : d \in ds}
        /\ \A f \in fs : bucket[key(f)] = files[f]
        /\ \A d \in ds : bucket[key(d) \o <<"/">>] = EmptyFile

\* C4 as amended: after to_s3 returns, the bucket holds exactly one object per file
\* below directory_path, at key os.path.join(p, r) with the file's bytes, and one
\* zero-byte object per subdirectory, at key os.path.join(p, d) + "/": the join is
\* p/r for a non-empty p that does not end in "/", r for the empty p, and p followed
\* by r for a p that ends in "/". Nothing else is written, whatever the walk's order.
C4_BucketMirrorsTree == Returned("to_s3") => BucketMirrors(TRUE)

\* C4 as claimed: the keys are p/r and p/d/ for every prefix p
C4_KeysArePrefixSlashPath == Returned("to_s3") => BucketMirrors(FALSE)

\* an upload with prefix p of a tree with a file two levels down and an empty
\* subdirectory has returned
C4_Witness ==
    /\ Returned("to_s3") /\ s3.prefix = <<"p">>
    /\ TreeRoot \o <<"a", "b">> \in DOMAIN files
    /\ TreeRoot \o <<"b">> \in dirs
    /\ <<"p", "/", "a", "/", "b">> \in DOMAIN bucket
    /\ <<"p", "/", "b", "/">> \in DOMAIN bucket

\* ------------------------------------------------------------------ C7 (SpecS3)
\* C7: the client of an upload signs with the credentials the caller supplied, and
\* with the ambient ones only when none were supplied
C7_ClientUsesGivenCredentials ==
    pc = "s3_walk" => s3.client = (IF s3.given = None THEN Ambient ELSE s3.given)

\* ------------------------------------------------------------------ C8 (SpecInfo)
InfoPath == StagingA \o <<"info">>

Patched == {"type", "mesh", "segment_properties"}

KeySet(d) == {d[i][1] : i \in 1..Len(d)}

\* C8: after edit_info the info file is a JSON object with type "segmentation", mesh
\* "mesh" and segment_properties "segment_properties"; every other key is the one of
\* the file before, with its value, and no key is added beyond the three; a second
\* edit_info leaves the file's content as it is.
C8_EditInfoPatch ==
    Returned("edit_info") =>
      LET old == read_json(pre, InfoPath)
          new == files[InfoPath].pairs
      IN  /\ files[InfoPath].fmt = "dump" /\ Distinct(new)
          /\ Get(new, "type") = S("segmentation")
          /\ Get(new, "mesh") = S("mesh")
          /\ Get(new, "segment_properties") = S("segment_properties")
          /\ KeySet(new) = KeySet(old) \cup Patched
          /\ \A k \in KeySet(old) \ Patched : Get(new, k) = Get(old, k)
          /\ (Len(log) >= 2 /\ log[Len(log) - 1].res = "returned")
                => files[InfoPath] = pre[InfoPath]

\* edit_info has run twice on an info file that came with "@type" and "scales"
C8_Witness ==
    /\ Returned("edit_info") /\ Len(log) = 2 /\ log[1].res = "returned"
    /\ Get(files[InfoPath].pairs, "scales") = <<"l", "a">>
    /\ Get(files[InfoPath].pairs, "@type") = S("image")

====
